---- MODULE Spec2Model ----
(***************************************************************************)
(* The sequence codec of src/core.py: encode_string and encode_sequences,  *)
(* with the decode direction the specification adds for the round trip.    *)
(* Both functions are pure; a behaviour is one call on inputs drawn by     *)
(* Init from bounded sets.                                                 *)
(***************************************************************************)
EXTENDS Integers, Sequences, FiniteSets

VARIABLES
    vocab,                \* the ordered vocabulary, a sequence of characters
    sequences,            \* the batch, a sequence of strings
    target_size,          \* Optional[int]
    eos,                  \* int
    sos,                  \* Optional[int]
    pad,                  \* Optional[int]
    dynamic_seq_length,   \* bool
    pc,                   \* which call has run: "start" before any
    idx,                  \* the batch element handed to encode_string (0: none)
    raised,               \* the exception the call raised, "none" if it returned
    encoded_data,         \* the grid encode_sequences returned (rows of cells)
    codes,                \* the list encode_string returned
    decoded               \* the string decode_sequence returned

vars == <<vocab, sequences, target_size, eos, sos, pad, dynamic_seq_length,
          pc, idx, raised, encoded_data, codes, decoded>>

inputs == <<vocab, sequences, target_size, eos, sos, pad, dynamic_seq_length>>

(***************************************************************************)
(* Bounds of the model and the sets the inputs are drawn from.             *)
(***************************************************************************)
MaxLen == 2        \* longest string of a batch
MaxBatch == 2      \* most strings in a batch
MaxTarget == 3     \* largest target_size supplied

Chars == {"a", "b"}

\* "a" is not in the second vocabulary.
Vocabs == {<<"a", "b">>, <<"b">>}

SeqsUpTo(S, n) == UNION {[1..k -> S] : k \in 0..n}

Strings == SeqsUpTo(Chars, MaxLen)

Batches == SeqsUpTo(Strings, MaxBatch)

\* Optional[int]: None, or an int.
None == [isint |-> FALSE, val |-> 0]

Some(v) == [isint |-> TRUE, val |-> v]

TargetSizes == {None} \cup {Some(t) : t \in 0..MaxTarget}

\* 0 is an index of both vocabularies; 1 is an index of the first and is
\* len(vocab) of the second.
EosValues == {-1, 0, 1}

SosValues == {None, Some(-3), Some(0)}

PadValues == {None, Some(-2), Some(0)}

Max(S) == CHOOSE m \in S : \A x \in S : x <= m

Min(S) == CHOOSE m \in S : \A x \in S : m <= x

Min2(a, b) == IF a <= b THEN a ELSE b

(***************************************************************************)
(* encode_string                                                           *)
(***************************************************************************)
\* c in vocab
Contains(v, c) == \E i \in 1..Len(v) : v[i] = c

\* a one-based position where str.index gives a zero-based one
StrIndexOneBased(v, c) == CHOOSE i \in 1..Len(v) : v[i] = c /\ \A j \in 1..(i - 1) : v[j] # c

\* str.index: the zero-based position of the first occurrence
StrIndex(v, c) == (CHOOSE i \in 1..Len(v) : v[i] = c /\ \A j \in 1..(i - 1) : v[j] # c) - 1

Returned(value) == [raised |-> "none", value |-> value]

Raise(e) == [raised |-> e, value |-> <<>>]

\* characters absent from the vocabulary are dropped instead of refused
encode_string_skip(input_string, v) ==
    LET known == SelectSeq(input_string, LAMBDA c : Contains(v, c))
    IN  Returned([k \in 1..Len(known) |-> StrIndex(v, known[k])])

encode_string(input_string, v) ==
    IF \A k \in 1..Len(input_string) : Contains(v, input_string[k])
    THEN Returned([k \in 1..Len(input_string) |-> StrIndex(v, input_string[k])])
    ELSE Raise("unknown_char")

(***************************************************************************)
(* encode_sequences                                                        *)
(***************************************************************************)
\* index 0 taken for a free code
InVocabIndicesFromOne(x, v) == 0 < x /\ x < Len(v)

\* the last index taken for a free code
InVocabIndicesButLast(x, v) == 0 <= x /\ x < Len(v) - 1

\* 0 <= x < len(vocab)
InVocabIndices(x, v) == 0 <= x /\ x < Len(v)

\* no cell reserved for EOS
max_length_no_eos(seqs, s, p) ==
    Max({Len(seqs[i]) : i \in 1..Len(seqs)})
      + (IF s.isint THEN 1 ELSE 0) + (IF p.isint THEN 1 ELSE 0)

\* lines 72-76: maximum string length + EOS (+ SOS) (+ PAD)
max_length(seqs, s, p) ==
    Max({Len(seqs[i]) : i \in 1..Len(seqs)})
      + 1 + (IF s.isint THEN 1 ELSE 0) + (IF p.isint THEN 1 ELSE 0)

\* lines 70-77: the width of the grid
final_target_size(seqs, t, s, p, dyn) ==
    IF ~t.isint \/ dyn
    THEN IF ~t.isint THEN max_length(seqs, s, p)
                     ELSE Min2(max_length(seqs, s, p), t.val)
    ELSE t.val

\* lines 80-86
default_symbol(e, p) == IF p.isint THEN p.val ELSE e

\* np.full([n, t], sym)
np_full(n, t, sym) == [i \in 1..n |-> [c \in 1..t |-> sym]]

\* eos never appended
appended_never(enc, e, p) == enc

\* lines 91-92: the encoding of one string, eos appended when padding
appended(enc, e, p) == IF p.isint THEN Append(enc, e) ELSE enc

\* one cell fewer copied
assign_row_short(row, seq) ==
    [c \in 1..Len(row) |-> IF c < Min2(Len(seq), Len(row)) THEN seq[c] ELSE row[c]]

\* line 93: the leading min(len(seq), target_size) cells of the row are overwritten
assign_row(row, seq) ==
    [c \in 1..Len(row) |-> IF c <= Min2(Len(seq), Len(row)) THEN seq[c] ELSE row[c]]

\* lines 87-93: the grid after the encoding loop
copied(seqs, v, T, e, p) ==
    [i \in 1..Len(seqs) |->
        assign_row(np_full(Len(seqs), T, default_symbol(e, p))[i],
                   appended(encode_string(seqs[i], v).value, e, p))]

\* rotated the other way
np_roll_back(data, T, shift) ==
    LET n == Len(data)
        size == n * T
        flat(j) == data[((j - 1) \div T) + 1][((j - 1) % T) + 1]
    IN  [i \in 1..n |-> [c \in 1..T |->
            flat((((i - 1) * T + c - 1 + shift) % size) + 1)]]

\* np.roll(a, shift) without an axis: the array is flattened, rotated and
\* given its shape back
np_roll(data, T, shift) ==
    LET n == Len(data)
        size == n * T
        flat(j) == data[((j - 1) \div T) + 1][((j - 1) % T) + 1]
    IN  [i \in 1..n |-> [c \in 1..T |->
            flat((((i - 1) * T + c - 1 - shift) % size) + 1)]]

\* encoded_data[:, 0] = value
set_column0(data, value) ==
    [i \in 1..Len(data) |-> [c \in 1..Len(data[i]) |-> IF c = 1 THEN value ELSE data[i][c]]]

encode_sequences(seqs, v, t, e, s, p, dyn) ==
    IF InVocabIndices(e, v) THEN Raise("eos")
    ELSE IF (~t.isint \/ dyn) /\ Len(seqs) = 0 THEN Raise("max_empty")
    ELSE LET T == final_target_size(seqs, t, s, p, dyn) IN
      IF p.isint /\ InVocabIndices(p.val, v) THEN Raise("pad")
      ELSE IF \E i \in 1..Len(seqs) : encode_string(seqs[i], v).raised # "none"
           THEN Raise("unknown_char")
      ELSE IF ~s.isint THEN Returned(copied(seqs, v, T, e, p))
      ELSE IF InVocabIndices(s.val, v) THEN Raise("sos")
      ELSE IF T = 0 THEN Raise("index")
      ELSE Returned(set_column0(np_roll(copied(seqs, v, T, e, p), T, 1), s.val))

(***************************************************************************)
(* decode_sequence                                                         *)
(***************************************************************************)
\* the cells before the first eos, all of them if there is none
before_eos(row, e) ==
    LET stops == {k \in 1..Len(row) : row[k] = e}
    IN  SubSeq(row, 1, IF stops = {} THEN Len(row) ELSE Min(stops) - 1)

decode_sequence(row, v, e) ==
    LET span == before_eos(row, e) IN
    IF \E k \in 1..Len(span) : ~InVocabIndices(span[k], v)
    THEN Raise("invalid_symbol")
    ELSE Returned([k \in 1..Len(span) |-> v[span[k] + 1]])

(***************************************************************************)
(* The calls                                                               *)
(***************************************************************************)
Init ==
    /\ vocab \in Vocabs
    /\ sequences \in Batches
    /\ target_size \in TargetSizes
    /\ eos \in EosValues
    /\ sos \in SosValues
    /\ pad \in PadValues
    /\ dynamic_seq_length \in BOOLEAN
    /\ pc = "start"
    /\ idx = 0
    /\ raised = "none"
    /\ encoded_data = <<>>
    /\ codes = <<>>
    /\ decoded = <<>>

CallEncodeSequences ==
    /\ pc = "start"
    /\ LET r == encode_sequences(sequences, vocab, target_size, eos, sos, pad,
                                 dynamic_seq_length)
       IN  /\ raised' = r.raised
           /\ encoded_data' = r.value
    /\ pc' = "encode_sequences"
    /\ UNCHANGED <<inputs, idx, codes, decoded>>

CallEncodeString ==
    /\ pc = "start"
    /\ \E i \in 1..Len(sequences) :
         LET r == encode_string(sequences[i], vocab)
         IN  /\ idx' = i
             /\ raised' = r.raised
             /\ codes' = r.value
    /\ pc' = "encode_string"
    /\ UNCHANGED <<inputs, encoded_data, decoded>>

CallDecodeSequence ==
    /\ pc = "encode_string"
    /\ raised = "none"
    /\ LET r == decode_sequence(codes, vocab, eos)
       IN  /\ raised' = r.raised
           /\ decoded' = r.value
    /\ pc' = "decode_sequence"
    /\ UNCHANGED <<inputs, idx, encoded_data, codes>>

Next == CallEncodeSequences \/ CallEncodeString \/ CallDecodeSequence

Spec == Init /\ [][Next]_vars

(***************************************************************************)
(* What the claims speak of, stated on the inputs and the results alone.   *)
(***************************************************************************)
Called == pc = "encode_sequences"

InRange(x) == x \in 0..(Len(vocab) - 1)

ValidSymbols ==
    /\ ~InRange(eos)
    /\ sos.isint => ~InRange(sos.val)
    /\ pad.isint => ~InRange(pad.val)

Known(ch) == ch \in {vocab[p] : p \in 1..Len(vocab)}

VocabOnly(s) == \A k \in 1..Len(s) : Known(s[k])

AllVocabOnly == \A i \in 1..Len(sequences) : VocabOnly(sequences[i])

NonEmptyBatch == Len(sequences) > 0

UniqueVocab == \A p, q \in 1..Len(vocab) : vocab[p] = vocab[q] => p = q

\* the code of a character: its zero-based position in the vocabulary
Position(ch) == CHOOSE p \in 0..(Len(vocab) - 1) : vocab[p + 1] = ch

FullEncoding(s) == [k \in 1..Len(s) |-> Position(s[k])]

Longest == Max({Len(sequences[i]) : i \in 1..Len(sequences)})

\* M of claim C1
ComputedWidth ==
    Longest + 1 + (IF sos.isint THEN 1 ELSE 0) + (IF pad.isint THEN 1 ELSE 0)

\* W of claim C1
ClaimedWidth ==
    IF ~target_size.isint THEN ComputedWidth
    ELSE IF dynamic_seq_length THEN Min2(ComputedWidth, target_size.val)
    ELSE target_size.val

Fill == IF pad.isint THEN pad.val ELSE eos

Offset == IF sos.isint THEN 1 ELSE 0

Prefix(s, n) == [k \in 1..n |-> s[k]]

(***************************************************************************)
(* The claims                                                              *)
(***************************************************************************)
\* C1: for a non-empty batch of vocabulary-only strings and valid eos/sos/pad,
\* encode_sequences returns one row per string, every row of width W
\* (ClaimedWidth).  The code raises an index error at width 0 with sos set.
C1_WidthOfEveryRow ==
    (Called /\ NonEmptyBatch /\ AllVocabOnly /\ ValidSymbols) =>
        /\ raised = "none"
        /\ Len(encoded_data) = Len(sequences)
        /\ \A i \in 1..Len(encoded_data) : Len(encoded_data[i]) = ClaimedWidth

\* C2 as stated: with target_size = k and a vocabulary-only string longer
\* than k, whatever sos and pad are, no error is raised and the row is the
\* first k codes of the string.  Taken at k >= 1, where the index error of
\* C1 plays no part.
C2_TruncationAnySos ==
    (Called /\ NonEmptyBatch /\ AllVocabOnly /\ ValidSymbols /\ target_size.isint
        /\ target_size.val >= 1) =>
        \A i \in 1..Len(sequences) :
            Len(sequences[i]) > target_size.val =>
                /\ raised = "none"
                /\ encoded_data[i] = Prefix(FullEncoding(sequences[i]), target_size.val)

\* C2 amended: the same with sos unset (pad set or unset).
C2_TruncationNoSos ==
    (Called /\ NonEmptyBatch /\ AllVocabOnly /\ ValidSymbols /\ target_size.isint
        /\ ~sos.isint) =>
        \A i \in 1..Len(sequences) :
            Len(sequences[i]) > target_size.val =>
                /\ raised = "none"
                /\ encoded_data[i] = Prefix(FullEncoding(sequences[i]), target_size.val)

\* a string of two different codes cut to its first code, eos appended before the cut
C2_Witness ==
    /\ Called /\ ValidSymbols /\ ~sos.isint /\ pad.isint
    /\ target_size = Some(1)
    /\ sequences = <<<<"b", "a">>, <<"a", "b">>>>
    /\ vocab = <<"a", "b">>
    /\ raised = "none"
    /\ encoded_data = <<<<1>>, <<0>>>>

\* the cells of a row after the string's codes: eos, then pad only
EosThenPad(row, from) ==
    /\ from <= Len(row)
    /\ row[from] = eos
    /\ \A c \in (from + 1)..Len(row) : row[c] = pad.val

\* C3 as stated: with pad set (sos set or unset), for every string shorter than
\* the final width the cell directly after the string's codes is eos and every
\* cell after that one is pad.
C3_PaddingAnySos ==
    (Called /\ NonEmptyBatch /\ AllVocabOnly /\ ValidSymbols /\ pad.isint
        /\ raised = "none") =>
        \A i \in 1..Len(sequences) :
            Len(sequences[i]) < Len(encoded_data[i]) =>
                EosThenPad(encoded_data[i], Offset + Len(sequences[i]) + 1)

\* C3 amended: the same for every string shorter than the final width, and
\* shorter than the final width minus one when sos is set.
C3_PaddingRoomForSos ==
    (Called /\ NonEmptyBatch /\ AllVocabOnly /\ ValidSymbols /\ pad.isint
        /\ raised = "none") =>
        \A i \in 1..Len(sequences) :
            Offset + Len(sequences[i]) < Len(encoded_data[i]) =>
                EosThenPad(encoded_data[i], Offset + Len(sequences[i]) + 1)

\* a padded row with sos: sos, the code, eos, pad
C3_Witness ==
    /\ Called /\ ValidSymbols /\ sos.isint /\ pad.isint
    /\ raised = "none"
    /\ \E i \in 1..Len(sequences) :
        /\ Len(sequences[i]) = 1
        /\ Len(encoded_data[i]) = 4
        /\ encoded_data[i] =
             <<sos.val, Position(sequences[i][1]), eos, pad.val>>

\* C4: eos inside [0, V) always fails with the error about eos and returns no
\* grid, whatever the batch and the other arguments are.
C4_EosCheckedFirst ==
    (Called /\ InRange(eos)) => (raised = "eos" /\ encoded_data = <<>>)

\* eos in range together with an unknown character and a pad in range
C4_Witness ==
    /\ Called /\ InRange(eos) /\ ~AllVocabOnly
    /\ pad.isint /\ InRange(pad.val)
    /\ raised = "eos"

\* C5: with valid symbols, a string holding a character absent from the
\* vocabulary makes encode_sequences raise the unknown-character error and
\* return no grid, and makes encode_string raise it too.
C5_UnknownCharacter ==
    /\ (Called /\ ValidSymbols /\ ~AllVocabOnly) =>
            (raised = "unknown_char" /\ encoded_data = <<>>)
    /\ (pc = "encode_string" /\ ~VocabOnly(sequences[idx])) =>
            (raised = "unknown_char" /\ codes = <<>>)

\* the unknown character sits past the final width
C5_Witness ==
    /\ Called /\ ValidSymbols
    /\ vocab = <<"b">>
    /\ sequences = <<<<"b", "a">>>>
    /\ target_size = Some(1)
    /\ raised = "unknown_char"

\* C6: for a vocabulary of unique characters, an eos outside [0, V) and a
\* vocabulary-only string s, encode_string gives each character its position
\* in the vocabulary and decoding the result gives s back.
C6_RoundTrip ==
    (UniqueVocab /\ ~InRange(eos) /\ idx > 0 /\ VocabOnly(sequences[idx])) =>
        /\ pc = "encode_string" =>
              (raised = "none" /\ codes = FullEncoding(sequences[idx]))
        /\ pc = "decode_sequence" =>
              (raised = "none" /\ decoded = sequences[idx])

\* a string of two different characters decoded back
C6_Witness ==
    /\ pc = "decode_sequence"
    /\ ~InRange(eos)
    /\ idx > 0
    /\ sequences[idx] = <<"b", "a">>
    /\ codes = <<1, 0>>
    /\ decoded = <<"b", "a">>

\* the errors the specification calls the invalid-symbol error
InvalidSymbolRaised == raised \in {"eos", "sos", "pad"}

\* C7 as stated: a sos or pad inside [0, V) makes encode_sequences fail with
\* the invalid-symbol error for every non-empty batch, a batch with unknown
\* characters included.
C7_SymbolBeforeCharacters ==
    (Called /\ NonEmptyBatch
        /\ ((sos.isint /\ InRange(sos.val)) \/ (pad.isint /\ InRange(pad.val)))) =>
        (InvalidSymbolRaised /\ encoded_data = <<>>)

\* C7 amended: a pad inside [0, V) does so for every non-empty batch; a sos
\* inside [0, V) does so when every string is made of vocabulary characters,
\* and when eos and pad are valid and some string holds an unknown character
\* the unknown-character error is raised instead.
C7_SosAfterCharacters ==
    (Called /\ NonEmptyBatch) =>
        /\ (pad.isint /\ InRange(pad.val)) =>
              (InvalidSymbolRaised /\ encoded_data = <<>>)
        /\ (sos.isint /\ InRange(sos.val) /\ AllVocabOnly) =>
              (InvalidSymbolRaised /\ encoded_data = <<>>)
        /\ (sos.isint /\ InRange(sos.val) /\ ~AllVocabOnly /\ ~InRange(eos)
              /\ (pad.isint => ~InRange(pad.val))) =>
              (raised = "unknown_char" /\ encoded_data = <<>>)

\* a sos in range, valid eos and pad, and an unknown character past the width
C7_Witness ==
    /\ Called /\ NonEmptyBatch
    /\ ~InRange(eos)
    /\ pad.isint /\ ~InRange(pad.val)
    /\ sos.isint /\ InRange(sos.val)
    /\ vocab = <<"b">>
    /\ sequences = <<<<"b">>, <<"b", "a">>>>
    /\ target_size = Some(1)
    /\ raised = "unknown_char"

\* C8: an empty batch with valid symbols raises the empty-batch error and
\* returns no grid, in every configuration.  With target_size supplied and
\* dynamic_seq_length false the code returns a grid of no rows.
C8_EmptyBatchRefused ==
    (Called /\ ~NonEmptyBatch /\ ValidSymbols) => raised = "max_empty"

\* C9: with a valid sos and a final width T >= 1, row i is sos followed by
\* columns 0..T-2 of what row i held after the encoding loop, and it is the
\* row that encoding string i alone at width T gives.
C9_ShiftWithinRow ==
    (Called /\ ValidSymbols /\ AllVocabOnly /\ sos.isint
        /\ ((target_size.isint /\ ~dynamic_seq_length) \/ NonEmptyBatch)
        /\ ClaimedWidth >= 1) =>
        /\ raised = "none"
        /\ Len(encoded_data) = Len(sequences)
        /\ \A i \in 1..Len(sequences) :
            LET before == copied(sequences, vocab, ClaimedWidth, eos, pad)[i]
                alone == encode_sequences(<<sequences[i]>>, vocab, Some(ClaimedWidth),
                                          eos, sos, pad, FALSE)
            IN  /\ Len(encoded_data[i]) = ClaimedWidth
                /\ encoded_data[i][1] = sos.val
                /\ \A c \in 1..(ClaimedWidth - 1) : encoded_data[i][c + 1] = before[c]
                /\ alone.raised = "none"
                /\ encoded_data[i] = alone.value[1]

\* two rows; the last cell of the first row before the shift is a code,
\* which the second row does not receive
C9_Witness ==
    /\ Called /\ ValidSymbols /\ sos.isint
    /\ vocab = <<"a", "b">>
    /\ sequences = <<<<"a", "b">>, <<"b", "a">>>>
    /\ target_size = Some(2)
    /\ raised = "none"
    /\ encoded_data = <<<<sos.val, 0>>, <<sos.val, 1>>>>

\* C10: with target_size absent no string is truncated: each row holds, after
\* the sos cell if sos is set, all codes of its string in order, then eos, and
\* in the remaining cells only the fill symbol (pad if set, else eos).
C10_NoTruncationWhenComputed ==
    (Called /\ ~target_size.isint /\ NonEmptyBatch /\ AllVocabOnly /\ ValidSymbols) =>
        /\ raised = "none"
        /\ Len(encoded_data) = Len(sequences)
        /\ \A i \in 1..Len(sequences) :
            LET row == encoded_data[i]
                n == Len(sequences[i])
            IN  /\ Offset + n + 1 <= Len(row)
                /\ sos.isint => row[1] = sos.val
                /\ \A k \in 1..n : row[Offset + k] = Position(sequences[i][k])
                /\ row[Offset + n + 1] = eos
                /\ \A c \in (Offset + n + 2)..Len(row) : row[c] = Fill

\* sos and pad both set, strings of different lengths
C10_Witness ==
    /\ Called /\ ~target_size.isint /\ ValidSymbols
    /\ sos.isint /\ pad.isint
    /\ vocab = <<"a", "b">>
    /\ sequences = <<<<"b">>, <<"a", "b">>>>
    /\ raised = "none"
    /\ encoded_data = <<<<sos.val, 1, eos, pad.val, pad.val>>,
                        <<sos.val, 0, 1, eos, pad.val>>>>

(***************************************************************************)
(* Further facts about the cases the claims above leave out                *)
(***************************************************************************)
\* The width rule of C1 away from the index error: whenever the width is at
\* least 1 or sos is unset, the grid is returned with every row of width W.
WidthRuleAwayFromIndexError ==
    (Called /\ NonEmptyBatch /\ AllVocabOnly /\ ValidSymbols)
        => /\ raised \in {"none", "index"}
           /\ raised = "index" <=> (sos.isint /\ ClaimedWidth = 0)
           /\ raised = "none" =>
                /\ Len(encoded_data) = Len(sequences)
                /\ \A i \in 1..Len(encoded_data) : Len(encoded_data[i]) = ClaimedWidth

\* Truncation with sos set: at k >= 1 the row of a string longer than k is sos
\* followed by the first k - 1 codes.
TruncationWithSos ==
    (Called /\ NonEmptyBatch /\ AllVocabOnly /\ ValidSymbols /\ target_size.isint
        /\ sos.isint /\ target_size.val >= 1) =>
        \A i \in 1..Len(sequences) :
            Len(sequences[i]) > target_size.val =>
                /\ raised = "none"
                /\ encoded_data[i] =
                     <<sos.val>> \o Prefix(FullEncoding(sequences[i]), target_size.val - 1)

\* An empty batch with valid symbols: refused when the width is computed,
\* answered with a grid of no rows when target_size fixes the width.
EmptyBatchOutcome ==
    (Called /\ ~NonEmptyBatch /\ ValidSymbols) =>
        IF ~target_size.isint \/ dynamic_seq_length
        THEN raised = "max_empty"
        ELSE /\ encoded_data = <<>>
             /\ raised = (IF sos.isint /\ target_size.val = 0 THEN "index" ELSE "none")

====
